---- MODULE Spec2Model ----
(***************************************************************************)
(* Order lifecycle and payment settlement of the Balmuya marketplace       *)
(* backend: the route handlers of routes/orders.js and routes/payments.js  *)
(* over the orders and payments tables.  Every handler runs to completion  *)
(* as one step; the reply it sends is kept in resp, the order-confirmation *)
(* e-mail it attempts in mail.                                             *)
(*                                                                         *)
(* The model follows one order from its creation: every handler reads and  *)
(* writes only the order row with the id of the request and the payment    *)
(* rows that carry that order id, so POST /api/orders is taken once.       *)
(*                                                                         *)
(* Spec is the backend as shipped.  SpecGateway differs in the payment     *)
(* gateway, which may also decline a verification.  SpecCreate is the      *)
(* order routes alone, with the cart of POST /api/orders ranging over      *)
(* every list of lines in the bounds.  SpecRace runs the handlers one      *)
(* database call at a time, so that requests in flight (inflight)          *)
(* interleave between a handler's read and its writes.                     *)
(***************************************************************************)
EXTENDS Integers, Sequences, FiniteSets, TLC

VARIABLES orders, payments, resp, mail, unknownColumn, inflight

vars == <<orders, payments, resp, mail, unknownColumn, inflight>>

(* Nullable columns: None is SQL NULL / JS undefined, Some(x) a value. *)
None == <<>>
Some(x) == <<x>>

(* ---------------------------------------------------------------- bounds *)
MaxPayments == 2

(* The carts of SpecCreate: at most MaxItems lines, each with a quantity   *)
(* between -MaxQuantity and MaxQuantity.                                   *)
MaxItems == 2

MaxQuantity == 2

(* ------------------------------------------------------------ enum types *)
OrderStatus == {"PENDING", "CONFIRMED", "PROCESSING", "SHIPPED", "DELIVERED",
                "CANCELLED", "REFUNDED"}

PaymentStatus == {"PENDING", "PROCESSING", "COMPLETED", "FAILED", "REFUNDED"}

PaymentMethod == {"CHAPA", "CBE_BIRR", "STRIPE", "CASH_ON_DELIVERY"}

DeliveryOption == {"SELLER_DELIVERY", "BUYER_PICKUP", "SPLIT_DELIVERY",
                   "PLATFORM_DELIVERY", "SELLER_RESPONSIBLE", "BUYER_RESPONSIBLE",
                   "SPLIT_RESPONSIBILITY"}

(* ------------------------------------------------------------- seed data *)
Users == {"buyer1", "seller1", "admin1"}

UserRole(u) ==
  CASE u = "admin1" -> "ADMIN"
    [] u = "seller1" -> "SELLER"
    [] OTHER -> "BUYER"

(* The shipping address of the sample buyer. *)
Addresses == {[id |-> "addrBuyer", userId |-> "buyer1"]}

(* The published sample products; the third is listed under a second      *)
(* store, so that a cart can mix sellers.                                  *)
Products == {[id |-> "necklace", price |-> 450, quantity |-> 5, sellerId |-> "seller1"],
             [id |-> "mug", price |-> 180, quantity |-> 10, sellerId |-> "seller1"],
             [id |-> "honey", price |-> 120, quantity |-> 20, sellerId |-> "seller2"]}

(* ------------------------------------------------------ request payloads *)
Item(p, q) == [productId |-> p, quantity |-> q]

(* One well-formed cart, and one cart for each way the validation fails. *)
GoodItems == <<Item("necklace", 2), Item("mug", 1)>>

BadItemLists == {<<>>,
                 <<Item("necklace", 6)>>,
                 <<Item("necklace", 1), Item("honey", 1)>>,
                 <<Item("ghost", 1)>>}

MethodInputs == {"CHAPA", "CASH_ON_DELIVERY", "PAYPAL"}

StatusInputs == OrderStatus \cup {"ARCHIVED"}

TrackingInputs == {None, Some("TRK-1")}

ReasonInputs == {Some("changed mind")}

(* The id of the order the model follows, and 0 for an id no row has; in   *)
(* a request body 0 stands for a missing id.                               *)
KnownOrderIds == {1}

UnknownOrderIds == {0}

Missing(id) == id = 0

PaymentIdInputs == 0..MaxPayments

WebhookStatusInputs == {"success", "failed"}

CreateRequests ==
  [user : Users, items : {GoodItems}, shippingAddressId : {Some("addrBuyer")},
   deliveryOption : {"PLATFORM_DELIVERY"}, paymentMethod : MethodInputs]
  \cup
  [user : {"buyer1"}, items : BadItemLists, shippingAddressId : {Some("addrBuyer")},
   deliveryOption : {"PLATFORM_DELIVERY"}, paymentMethod : {"CHAPA"}]
  \cup
  [user : {"buyer1"}, items : {GoodItems}, shippingAddressId : {None},
   deliveryOption : {"PLATFORM_DELIVERY"}, paymentMethod : {"CHAPA"}]

UpdateRequests ==
  [user : {"seller1"}, id : KnownOrderIds, status : StatusInputs,
   trackingNumber : TrackingInputs]
  \cup
  [user : Users, id : KnownOrderIds, status : StatusInputs, trackingNumber : {None}]
  \cup
  [user : {"seller1"}, id : UnknownOrderIds, status : {"CONFIRMED"}, trackingNumber : {None}]

CancelRequests ==
  [user : Users, id : KnownOrderIds, reason : ReasonInputs]
  \cup
  [user : {"buyer1"}, id : UnknownOrderIds, reason : ReasonInputs]

InitializeRequests ==
  [user : Users, orderId : KnownOrderIds, paymentMethod : MethodInputs]
  \cup
  [user : {"buyer1"}, orderId : UnknownOrderIds, paymentMethod : {"CHAPA"}]

(* new Date(): the handlers only ever store the current time. *)
newDate == Some("now")

(* ------------------------------------------------------------- responses *)
(* The last exchange: the route, the authenticated requester ("" on the   *)
(* public webhooks) and the reply.                                         *)
Reply(route, user, code, message, data) ==
  [route |-> route, user |-> user, code |-> code, message |-> message,
   data |-> data]

NoData == [none |-> TRUE]

(* ------------------------------------------------------- the persistence *)
OrderIds == DOMAIN orders

PaymentIds == DOMAIN payments

PaymentsOf(orderId) == {p \in PaymentIds : payments[p].orderId = orderId}

(* The columns of the orders table. *)
OrderColumns == {"id", "orderNumber", "status", "paymentStatus", "deliveryStatus",
                 "subtotal", "shipping", "tax", "discount", "total",
                 "deliveryOption", "trackingNumber", "deliveryAddress",
                 "deliveryNotes", "notes", "cancelledAt", "cancelledBy",
                 "cancellationReason", "paidAt", "shippedAt", "deliveredAt",
                 "createdAt", "updatedAt", "buyerId", "sellerId",
                 "shippingAddressId"}

(* PUT /api/orders/:id/status filters orders on "role", which is not a     *)
(* column of the table.  What the ORM does with such a filter is fixed by  *)
(* the generated client, not by the handler: it refuses the query (the     *)
(* handler's catch replies 500) or the filter matches no row.              *)
UnknownColumnOutcomes ==
  IF "role" \in OrderColumns THEN {"matches"} ELSE {"throws", "nomatch"}

(* The requests SpecRace keeps in flight: two initializations of a payment *)
(* and a cancellation by the buyer, a status change by the seller, a       *)
(* verification by the buyer.  Each has the handler's position (pc), the   *)
(* row its read returned (snap), the payment it works on (pid), the        *)
(* requested status and the reply code (0 until it has replied).           *)
InitializeSlots == {"initA", "initB"}

RaceSlots == InitializeSlots \cup {"cancel", "update", "verify"}

IdleCall == [pc |-> "idle", snap |-> None, pid |-> 0, status |-> "", code |-> 0]

Init ==
  /\ orders = <<>>
  /\ payments = <<>>
  /\ resp = Reply("none", "", 0, "", NoData)
  /\ mail = None
  /\ unknownColumn \in UnknownColumnOutcomes
  /\ inflight = [s \in RaceSlots |-> IdleCall]

(* ------------------------------------------------ POST /api/orders       *)
ProductById(id) == CHOOSE p \in Products : p.id = id

RECURSIVE SubtotalOf(_)
SubtotalOf(items) ==
  IF items = <<>> THEN 0
  ELSE ProductById(Head(items).productId).price * Head(items).quantity
       + SubtotalOf(Tail(items))

ShippingOf(deliveryOption) == IF deliveryOption = "PLATFORM_DELIVERY" THEN 50 ELSE 0

TaxOf == 0

(* A total that leaves the shipping fee out. *)
TotalOfWithoutShipping(subtotal, shipping, tax) == subtotal + tax

(* const total = subtotal + shipping + tax; *)
TotalOf(subtotal, shipping, tax) == subtotal + shipping + tax

NewOrder(user, sellerId, items, shippingAddressId, deliveryOption) ==
  LET subtotal == SubtotalOf(items)
      shipping == ShippingOf(deliveryOption)
      tax == TaxOf
      total == TotalOf(subtotal, shipping, tax)
  IN [status |-> "PENDING", paymentStatus |-> "PENDING",
      subtotal |-> subtotal, shipping |-> shipping, tax |-> tax, discount |-> 0,
      total |-> total, deliveryOption |-> deliveryOption,
      trackingNumber |-> None, cancelledAt |-> None, cancelledBy |-> None,
      cancellationReason |-> None,
      buyerId |-> user, sellerId |-> sellerId,
      shippingAddressId |-> shippingAddressId,
      items |-> [i \in 1..Len(items) |->
                   [productId |-> items[i].productId, quantity |-> items[i].quantity,
                    price |-> ProductById(items[i].productId).price]]]

(* A payment row for a deposit of half the amount. *)
NewPaymentDeposit(orderId, user, amount, paymentMethod) ==
  [orderId |-> orderId, userId |-> user, amount |-> amount \div 2, currency |-> "ETB",
   paymentMethod |-> paymentMethod, status |-> "PENDING",
   transactionId |-> None, paymentUrl |-> None,
   paidAt |-> None, refundedAt |-> None, refundAmount |-> None]

NewPayment(orderId, user, amount, paymentMethod) ==
  [orderId |-> orderId, userId |-> user, amount |-> amount, currency |-> "ETB",
   paymentMethod |-> paymentMethod, status |-> "PENDING",
   transactionId |-> None, paymentUrl |-> None,
   paidAt |-> None, refundedAt |-> None, refundAmount |-> None]

(* The requests the validation of POST /api/orders lets through. *)
OrderAccepted(user, items, shippingAddressId) ==
  LET productIds == [i \in 1..Len(items) |-> items[i].productId]
      products == {p \in Products : \E i \in 1..Len(items) : productIds[i] = p.id}
  IN /\ Len(items) > 0
     /\ shippingAddressId # None
     /\ \E a \in Addresses : Some(a.id) = shippingAddressId /\ a.userId = user
     /\ Cardinality(products) = Len(productIds)
     /\ Cardinality({p.sellerId : p \in products}) <= 1
     /\ \A i \in 1..Len(items) :
          ~(ProductById(items[i].productId).quantity < items[i].quantity)

createOrder(user, items, shippingAddressId, deliveryOption, paymentMethod) ==
  LET productIds == [i \in 1..Len(items) |-> items[i].productId]
      products == {p \in Products : \E i \in 1..Len(items) : productIds[i] = p.id}
      sellerIds == {p.sellerId : p \in products}
      orderId == Len(orders) + 1
      paymentId == Len(payments) + 1
  IN
  IF Len(items) = 0 THEN
    /\ resp' = Reply("createOrder", user, 400, "Order items are required", NoData)
    /\ UNCHANGED <<orders, payments>>
  ELSE IF shippingAddressId = None THEN
    /\ resp' = Reply("createOrder", user, 400, "Shipping address is required", NoData)
    /\ UNCHANGED <<orders, payments>>
  ELSE IF ~\E a \in Addresses : Some(a.id) = shippingAddressId /\ a.userId = user THEN
    /\ resp' = Reply("createOrder", user, 400, "Invalid shipping address", NoData)
    /\ UNCHANGED <<orders, payments>>
  ELSE IF Cardinality(products) # Len(productIds) THEN
    /\ resp' = Reply("createOrder", user, 400, "One or more products not found", NoData)
    /\ UNCHANGED <<orders, payments>>
  ELSE IF Cardinality(sellerIds) > 1 THEN
    /\ resp' = Reply("createOrder", user, 400, "All items must be from the same seller", NoData)
    /\ UNCHANGED <<orders, payments>>
  ELSE IF \E i \in 1..Len(items) :
            ProductById(items[i].productId).quantity < items[i].quantity THEN
    /\ resp' = Reply("createOrder", user, 400, "Insufficient quantity", NoData)
    /\ UNCHANGED <<orders, payments>>
  ELSE IF deliveryOption \notin DeliveryOption THEN
    (* order.create rejects a value outside the enum: caught, 500 *)
    /\ resp' = Reply("createOrder", user, 500, "Internal server error", NoData)
    /\ UNCHANGED <<orders, payments>>
  ELSE
    LET sellerId == CHOOSE s \in sellerIds : TRUE
        order == NewOrder(user, sellerId, items, shippingAddressId, deliveryOption)
    IN
    /\ orders' = Append(orders, order)
    /\ IF paymentMethod \notin PaymentMethod THEN
         (* payment.create rejects the method after the order row is written *)
         /\ payments' = payments
         /\ resp' = Reply("createOrder", user, 500, "Internal server error", NoData)
       ELSE
         /\ payments' = Append(payments,
                               NewPayment(orderId, user, order.total, paymentMethod))
         /\ resp' = Reply("createOrder", user, 201, "Order created successfully",
                          [orderId |-> orderId, status |-> order.status,
                           total |-> order.total,
                           paymentStatus |-> order.paymentStatus,
                           paymentUrl |-> <<"chapa", "transaction", paymentId>>,
                           transactionId |-> paymentId])

CreateOrder ==
  \E r \in CreateRequests :
    /\ OrderAccepted(r.user, r.items, r.shippingAddressId)
         => orders = <<>> /\ Len(payments) < MaxPayments
    /\ createOrder(r.user, r.items, r.shippingAddressId, r.deliveryOption,
                   r.paymentMethod)
    /\ mail' = None
    /\ UNCHANGED <<unknownColumn, inflight>>

(* ------------------------------------------ PUT /api/orders/:id/status   *)
(* A table that lets a CANCELLED order be marked REFUNDED. *)
validTransitionsToRefunded(current) ==
  CASE current = "PENDING" -> {"CONFIRMED", "CANCELLED"}
    [] current = "CONFIRMED" -> {"PROCESSING", "CANCELLED"}
    [] current = "PROCESSING" -> {"SHIPPED"}
    [] current = "SHIPPED" -> {"DELIVERED"}
    [] current = "CANCELLED" -> {"REFUNDED"}
    [] OTHER -> {}

(* A table that also lets a PROCESSING order be cancelled. *)
validTransitionsCancelLate(current) ==
  CASE current = "PENDING" -> {"CONFIRMED", "CANCELLED"}
    [] current = "CONFIRMED" -> {"PROCESSING", "CANCELLED"}
    [] current = "PROCESSING" -> {"SHIPPED", "CANCELLED"}
    [] current = "SHIPPED" -> {"DELIVERED"}
    [] OTHER -> {}

validTransitions(current) ==
  CASE current = "PENDING" -> {"CONFIRMED", "CANCELLED"}
    [] current = "CONFIRMED" -> {"PROCESSING", "CANCELLED"}
    [] current = "PROCESSING" -> {"SHIPPED"}
    [] current = "SHIPPED" -> {"DELIVERED"}
    [] current = "DELIVERED" -> {}
    [] current = "CANCELLED" -> {}
    [] current = "REFUNDED" -> {}
    [] OTHER -> {}

(* where: { id, OR: [ {sellerId: user}, {buyerId: user, role: 'ADMIN'} ] } *)
RoleColumn(order) == None

(* A lookup that matches the order's buyer whatever the buyer's role. *)
CanUpdateAnyBuyer(user, id) ==
  /\ id \in OrderIds
  /\ \/ orders[id].sellerId = user
     \/ orders[id].buyerId = user

CanUpdate(user, id) ==
  /\ id \in OrderIds
  /\ \/ orders[id].sellerId = user
     \/ (orders[id].buyerId = user /\ RoleColumn(orders[id]) = Some("ADMIN"))

updateOrderStatus(user, id, status, trackingNumber) ==
  IF unknownColumn = "throws" THEN
    /\ resp' = Reply("updateOrderStatus", user, 500, "Internal server error", NoData)
    /\ UNCHANGED <<orders, payments>>
  ELSE IF ~CanUpdate(user, id) THEN
    /\ resp' = Reply("updateOrderStatus", user, 404, "Order not found or access denied", NoData)
    /\ UNCHANGED <<orders, payments>>
  ELSE IF status \notin validTransitions(orders[id].status) THEN
    /\ resp' = Reply("updateOrderStatus", user, 400, "Cannot change status", NoData)
    /\ UNCHANGED <<orders, payments>>
  ELSE
    /\ orders' = [orders EXCEPT
                    ![id].status = status,
                    ![id].trackingNumber =
                       IF trackingNumber # None THEN trackingNumber ELSE @]
    /\ resp' = Reply("updateOrderStatus", user, 200, "Order status updated successfully",
                     [orderId |-> id, previousStatus |-> orders[id].status,
                      newStatus |-> status])
    /\ UNCHANGED payments

UpdateOrderStatus ==
  \E r \in UpdateRequests :
    /\ updateOrderStatus(r.user, r.id, r.status, r.trackingNumber)
    /\ mail' = None
    /\ UNCHANGED <<unknownColumn, inflight>>

(* ------------------------------------------ POST /api/orders/:id/cancel  *)
(* A lookup that forgets the status filter. *)
CancellableAnyStatus(user, id) ==
  /\ id \in OrderIds
  /\ orders[id].buyerId = user

(* A lookup that forgets the buyer filter. *)
CancellableAnyUser(user, id) ==
  /\ id \in OrderIds
  /\ orders[id].status \in {"PENDING", "CONFIRMED"}

(* where: { id, buyerId: user, status: { in: ['PENDING', 'CONFIRMED'] } }  *)
Cancellable(user, id) ==
  /\ id \in OrderIds
  /\ orders[id].buyerId = user
  /\ orders[id].status \in {"PENDING", "CONFIRMED"}

(* An updateMany that sets the status and leaves the refund amount out. *)
RefundAllNoAmount(id, refundAmount) ==
  [p \in PaymentIds |->
     IF payments[p].orderId = id
     THEN [payments[p] EXCEPT !.status = "REFUNDED", !.refundedAt = newDate]
     ELSE payments[p]]

(* payment.updateMany({ where: { orderId: id }, data: {...} }) *)
RefundAll(id, refundAmount) ==
  [p \in PaymentIds |->
     IF payments[p].orderId = id
     THEN [payments[p] EXCEPT !.status = "REFUNDED", !.refundedAt = newDate,
                              !.refundAmount = Some(refundAmount)]
     ELSE payments[p]]

(* A refund condition that only rules out a failed payment. *)
RefundDueUnlessFailed(order) == order.paymentStatus # "FAILED"

(* if (order.paymentStatus === 'COMPLETED') *)
RefundDue(order) == order.paymentStatus = "COMPLETED"

cancelOrder(user, id, reason) ==
  IF ~Cancellable(user, id) THEN
    /\ resp' = Reply("cancelOrder", user, 400, "Order cannot be cancelled", NoData)
    /\ UNCHANGED <<orders, payments>>
  ELSE
    LET order == orders[id]
        refundAmount == IF RefundDue(order) THEN order.total ELSE 0
    IN
    /\ orders' = [orders EXCEPT ![id].status = "CANCELLED",
                                ![id].cancelledAt = newDate,
                                ![id].cancelledBy = Some(user),
                                ![id].cancellationReason =
                                   IF reason # None THEN reason ELSE @]
    /\ payments' = IF RefundDue(order)
                   THEN RefundAll(id, refundAmount)
                   ELSE payments
    /\ resp' = Reply("cancelOrder", user, 200, "Order cancelled successfully",
                     [orderId |-> id, status |-> "CANCELLED",
                      refundAmount |-> refundAmount])

CancelOrder ==
  \E r \in CancelRequests :
    /\ cancelOrder(r.user, r.id, r.reason)
    /\ mail' = None
    /\ UNCHANGED <<unknownColumn, inflight>>

(* --------------------------------------- POST /api/payments/initialize   *)
GatewayMethods == {"CHAPA", "CBE_BIRR", "STRIPE"}

initializeChapaPayment(paymentId) == <<"https://checkout.chapa.co/checkout/payment", paymentId>>

initializeCbeBirrPayment(paymentId) == <<"https://cbe-birr.com/payment", paymentId>>

initializeStripePayment(paymentId) == <<"https://checkout.stripe.com/pay", paymentId>>

(* A pre-check whose include filter matches no payment. *)
ActivePaymentsNone(orderId) == {}

(* A pre-check that only looks for payments in PROCESSING. *)
ActivePaymentsProcessingOnly(orderId) ==
  {p \in PaymentsOf(orderId) : payments[p].status \in {"PROCESSING"}}

(* include: { payments: { where: { status: { in: ['PENDING','PROCESSING'] } } } } *)
ActivePayments(orderId) ==
  {p \in PaymentsOf(orderId) : payments[p].status \in {"PENDING", "PROCESSING"}}

(* The requests that get as far as payment.create. *)
InitializeCreates(user, orderId, paymentMethod) ==
  /\ orderId \in OrderIds
  /\ orders[orderId].buyerId = user
  /\ ActivePayments(orderId) = {}
  /\ paymentMethod \in PaymentMethod

initializePayment(user, orderId, paymentMethod) ==
  LET paymentId == Len(payments) + 1 IN
  IF Missing(orderId) THEN
    /\ resp' = Reply("initializePayment", user, 400, "Order ID is required", NoData)
    /\ UNCHANGED <<orders, payments>>
  ELSE IF ~(orderId \in OrderIds /\ orders[orderId].buyerId = user) THEN
    /\ resp' = Reply("initializePayment", user, 404, "Order not found", NoData)
    /\ UNCHANGED <<orders, payments>>
  ELSE IF ActivePayments(orderId) # {} THEN
    /\ resp' = Reply("initializePayment", user, 400,
                     "Payment already initialized for this order", NoData)
    /\ UNCHANGED <<orders, payments>>
  ELSE IF paymentMethod \notin PaymentMethod THEN
    (* payment.create rejects a value outside the enum: caught, 500 *)
    /\ resp' = Reply("initializePayment", user, 500, "Internal server error", NoData)
    /\ UNCHANGED <<orders, payments>>
  ELSE IF paymentMethod \notin GatewayMethods THEN
    (* the row is created before the switch on the method replies 400 *)
    /\ payments' = Append(payments,
                          NewPayment(orderId, user, orders[orderId].total, paymentMethod))
    /\ resp' = Reply("initializePayment", user, 400, "Unsupported payment method", NoData)
    /\ UNCHANGED orders
  ELSE
    LET paymentUrl == CASE paymentMethod = "CHAPA" -> initializeChapaPayment(paymentId)
                        [] paymentMethod = "CBE_BIRR" -> initializeCbeBirrPayment(paymentId)
                        [] paymentMethod = "STRIPE" -> initializeStripePayment(paymentId)
        payment == NewPayment(orderId, user, orders[orderId].total, paymentMethod)
    IN
    /\ payments' = Append(payments,
                          [payment EXCEPT !.transactionId = Some(paymentId),
                                          !.paymentUrl = Some(paymentUrl)])
    /\ resp' = Reply("initializePayment", user, 200, "",
                     [paymentUrl |-> paymentUrl, transactionId |-> paymentId,
                      amount |-> orders[orderId].total, currency |-> "ETB"])
    /\ UNCHANGED orders

InitializePayment ==
  \E r \in InitializeRequests :
    /\ InitializeCreates(r.user, r.orderId, r.paymentMethod)
         => Len(payments) < MaxPayments
    /\ initializePayment(r.user, r.orderId, r.paymentMethod)
    /\ mail' = None
    /\ UNCHANGED <<unknownColumn, inflight>>

(* ------------------------------ POST /api/payments/verify/:transactionId *)
(* The gateway adapters: stubs that report success. *)
verifyChapaPayment(transactionId) == [success |-> TRUE]

verifyCbeBirrPayment(transactionId) == [success |-> TRUE]

verifyStripePayment(transactionId) == [success |-> TRUE]

(* A settlement that records the payment and leaves the order status. *)
SettleOrderPaymentOnly(orderId) ==
  [orders EXCEPT ![orderId].paymentStatus = "COMPLETED"]

(* order.update({ where: { id }, data: { paymentStatus: 'COMPLETED', status: 'CONFIRMED' } }) *)
SettleOrder(orderId) ==
  [orders EXCEPT ![orderId].paymentStatus = "COMPLETED",
                 ![orderId].status = "CONFIRMED"]

(* The switch on payment.paymentMethod that asks the method's gateway. *)
verifyWithGateway(paymentMethod, transactionId) ==
  CASE paymentMethod = "CHAPA" -> verifyChapaPayment(transactionId)
    [] paymentMethod = "CBE_BIRR" -> verifyCbeBirrPayment(transactionId)
    [] paymentMethod = "STRIPE" -> verifyStripePayment(transactionId)

(* utils/email.js sendOrderConfirmation(email, firstName, order): builds    *)
(* the message and hands it to the mail transport, which delivers it or    *)
(* throws.                                                                 *)
MailOutcomes == {"sent", "failed"}

sendOrderConfirmation(user, orderId, outcome) ==
  Some([to |-> user, orderId |-> orderId, outcome |-> outcome])

(* A handler whose catch passes the e-mail error on to the outer catch. *)
CatchEmailErrorRethrows(user, outcome, reply) ==
  IF outcome = "failed"
  THEN Reply("verifyPayment", user, 500, "Internal server error", NoData)
  ELSE reply

(* try { await sendOrderConfirmation(...) } catch (emailError) {           *)
(* console.error(...) }: the handler goes on to its reply either way.      *)
CatchEmailError(user, outcome, reply) == reply

(* The handler, with answer[m] what the gateway of method m answers to the *)
(* verification the switch calls.                                          *)
verifyPaymentWith(user, transactionId, answer) ==
  IF ~(transactionId \in PaymentIds /\ payments[transactionId].userId = user) THEN
    /\ resp' = Reply("verifyPayment", user, 404, "Payment not found", NoData)
    /\ mail' = None
    /\ UNCHANGED <<orders, payments>>
  ELSE
    LET payment == payments[transactionId] IN
    IF payment.paymentMethod \notin GatewayMethods THEN
      /\ resp' = Reply("verifyPayment", user, 400, "Unsupported payment method", NoData)
      /\ mail' = None
      /\ UNCHANGED <<orders, payments>>
    ELSE
      LET verificationResult == answer[payment.paymentMethod]
          reply == Reply("verifyPayment", user, 200, "",
                         [transactionId |-> transactionId,
                          status |-> IF verificationResult.success
                                     THEN "SUCCESS" ELSE "FAILED",
                          orderId |-> payment.orderId, amount |-> payment.amount])
      IN
      IF verificationResult.success
      THEN /\ payments' = [payments EXCEPT ![transactionId].status = "COMPLETED",
                                           ![transactionId].paidAt = newDate]
           /\ orders' = SettleOrder(payment.orderId)
           /\ \E outcome \in MailOutcomes :
                /\ mail' = sendOrderConfirmation(user, payment.orderId, outcome)
                /\ resp' = CatchEmailError(user, outcome, reply)
      ELSE /\ UNCHANGED <<orders, payments>>
           /\ mail' = None
           /\ resp' = reply

verifyPayment(user, transactionId) ==
  verifyPaymentWith(user, transactionId,
                    [m \in GatewayMethods |-> verifyWithGateway(m, transactionId)])

VerifyPayment ==
  \E user \in Users, transactionId \in PaymentIdInputs :
    /\ verifyPayment(user, transactionId)
    /\ UNCHANGED <<unknownColumn, inflight>>

(* ------------------------------------------ POST /api/payments/webhook/* *)
(* payment.findFirst({ where: { transactionId } }): the first matching row *)
FindByTransactionId(transactionId) ==
  {p \in PaymentIds :
     /\ payments[p].transactionId = Some(transactionId)
     /\ \A q \in PaymentIds : payments[q].transactionId = Some(transactionId) => p <= q}

webhook(route, transactionId, status) ==
  IF Missing(transactionId) THEN
    /\ resp' = Reply(route, "", 400, "Transaction ID is required", NoData)
    /\ UNCHANGED <<orders, payments>>
  ELSE IF FindByTransactionId(transactionId) = {} THEN
    /\ resp' = Reply(route, "", 404, "Payment not found", NoData)
    /\ UNCHANGED <<orders, payments>>
  ELSE
    LET id == CHOOSE p \in FindByTransactionId(transactionId) : TRUE
        paymentStatus == IF status = "success" THEN "COMPLETED" ELSE "FAILED"
    IN
    /\ payments' = [payments EXCEPT
                      ![id].status = paymentStatus,
                      ![id].paidAt = IF paymentStatus = "COMPLETED" THEN newDate ELSE None]
    /\ orders' = IF paymentStatus = "COMPLETED"
                 THEN SettleOrder(payments[id].orderId)
                 ELSE orders
    /\ resp' = Reply(route, "", 200, "", NoData)

WebhookChapa ==
  \E transactionId \in PaymentIdInputs, status \in WebhookStatusInputs :
    /\ webhook("webhookChapa", transactionId, status)
    /\ mail' = None
    /\ UNCHANGED <<unknownColumn, inflight>>

WebhookCbeBirr ==
  \E transactionId \in PaymentIdInputs, status \in WebhookStatusInputs :
    /\ webhook("webhookCbeBirr", transactionId, status)
    /\ mail' = None
    /\ UNCHANGED <<unknownColumn, inflight>>

(* ------------------------------------------------------ the specification *)
Next ==
  \/ CreateOrder
  \/ UpdateOrderStatus
  \/ CancelOrder
  \/ InitializePayment
  \/ VerifyPayment
  \/ WebhookChapa
  \/ WebhookCbeBirr

Spec == Init /\ [][Next]_vars

(* -------------------------------------------- the order routes by cart  *)
(* req.body.items is any array: every cart of up to MaxItems lines over    *)
(* the sample products, with any integer quantity in the bounds.           *)
Quantities == (0 - MaxQuantity)..MaxQuantity

CartLines == {Item(p.id, q) : p \in Products, q \in Quantities}

Carts == UNION {[1..n -> CartLines] : n \in 1..MaxItems}

CartRequests ==
  [user : {"buyer1"}, items : Carts, shippingAddressId : {Some("addrBuyer")},
   deliveryOption : {"SELLER_DELIVERY", "PLATFORM_DELIVERY"},
   paymentMethod : {"CHAPA"}]

CreateOrderCart ==
  \E r \in CartRequests :
    /\ orders = <<>>
    /\ createOrder(r.user, r.items, r.shippingAddressId, r.deliveryOption,
                   r.paymentMethod)
    /\ mail' = None
    /\ UNCHANGED <<unknownColumn, inflight>>

NextCreate ==
  \/ CreateOrderCart
  \/ UpdateOrderStatus
  \/ CancelOrder

SpecCreate == Init /\ [][NextCreate]_vars

(* ------------------------------------- the handlers, call by call      *)
(* Every await of a handler is a step of its own; what the handler does    *)
(* between two database calls is part of the step of the first.            *)
RaceUser(s) == IF s = "update" THEN "seller1" ELSE "buyer1"

RaceMethod == "CHAPA"

RaceStatusInputs == {"CONFIRMED", "PROCESSING", "CANCELLED"}

Replied(s, code) == [inflight EXCEPT ![s].pc = "done", ![s].code = code]

Moved(s, pc, snap) == [inflight EXCEPT ![s].pc = pc, ![s].snap = Some(snap)]

RaceCreateOrder ==
  /\ orders = <<>>
  /\ CreateOrder

(* initializePayment: order.findFirst and the pre-check on its payments *)
InitializeRead(s) ==
  /\ inflight[s].pc = "idle"
  /\ \E id \in KnownOrderIds :
       inflight' =
         IF ~(id \in OrderIds /\ orders[id].buyerId = RaceUser(s)) THEN Replied(s, 404)
         ELSE IF ActivePayments(id) # {} THEN Replied(s, 400)
         ELSE Moved(s, "read", [id |-> id, total |-> orders[id].total])
  /\ UNCHANGED <<orders, payments, resp, mail, unknownColumn>>

(* An insert that looks for an open payment again, in the same statement. *)
InitializeCreateChecked(s) ==
  /\ inflight[s].pc = "read"
  /\ Len(payments) < MaxPayments
  /\ LET order == inflight[s].snap[1] IN
     IF ActivePayments(order.id) # {}
     THEN /\ inflight' = Replied(s, 400)
          /\ UNCHANGED payments
     ELSE /\ payments' = Append(payments,
                                NewPayment(order.id, RaceUser(s), order.total, RaceMethod))
          /\ inflight' = [inflight EXCEPT ![s].pc = "created",
                                          ![s].pid = Len(payments) + 1]
  /\ UNCHANGED <<orders, resp, mail, unknownColumn>>

(* initializePayment: payment.create *)
InitializeCreate(s) ==
  /\ inflight[s].pc = "read"
  /\ Len(payments) < MaxPayments
  /\ LET order == inflight[s].snap[1] IN
     payments' = Append(payments,
                        NewPayment(order.id, RaceUser(s), order.total, RaceMethod))
  /\ inflight' = [inflight EXCEPT ![s].pc = "created", ![s].pid = Len(payments) + 1]
  /\ UNCHANGED <<orders, resp, mail, unknownColumn>>

(* initializePayment: the gateway's URL, payment.update and the reply *)
InitializeUpdate(s) ==
  /\ inflight[s].pc = "created"
  /\ LET paymentId == inflight[s].pid IN
     payments' = [payments EXCEPT
                    ![paymentId].transactionId = Some(paymentId),
                    ![paymentId].paymentUrl = Some(initializeChapaPayment(paymentId))]
  /\ inflight' = Replied(s, 200)
  /\ UNCHANGED <<orders, resp, mail, unknownColumn>>

(* cancelOrder: order.findFirst *)
CancelRead ==
  /\ inflight["cancel"].pc = "idle"
  /\ \E id \in KnownOrderIds :
       inflight' =
         IF ~Cancellable(RaceUser("cancel"), id) THEN Replied("cancel", 400)
         ELSE Moved("cancel", "read",
                    [id |-> id, paymentStatus |-> orders[id].paymentStatus,
                     total |-> orders[id].total])
  /\ UNCHANGED <<orders, payments, resp, mail, unknownColumn>>

(* cancelOrder: order.update *)
CancelWriteOrder ==
  /\ inflight["cancel"].pc = "read"
  /\ \E reason \in ReasonInputs :
       orders' = [orders EXCEPT
                    ![inflight["cancel"].snap[1].id] =
                       [@ EXCEPT !.status = "CANCELLED",
                                 !.cancelledAt = newDate,
                                 !.cancelledBy = Some(RaceUser("cancel")),
                                 !.cancellationReason = reason]]
  /\ inflight' = [inflight EXCEPT !["cancel"].pc = "wrote"]
  /\ UNCHANGED <<payments, resp, mail, unknownColumn>>

(* cancelOrder: the refund, decided on the row that was read, and the reply *)
CancelRefund ==
  /\ inflight["cancel"].pc = "wrote"
  /\ LET order == inflight["cancel"].snap[1] IN
     payments' = IF RefundDue(order) THEN RefundAll(order.id, order.total) ELSE payments
  /\ inflight' = Replied("cancel", 200)
  /\ UNCHANGED <<orders, resp, mail, unknownColumn>>

(* updateOrderStatus: order.findFirst and the check against the table *)
UpdateRead ==
  /\ inflight["update"].pc = "idle"
  /\ \E id \in KnownOrderIds, status \in RaceStatusInputs :
       inflight' =
         IF unknownColumn = "throws" THEN Replied("update", 500)
         ELSE IF ~CanUpdate(RaceUser("update"), id) THEN Replied("update", 404)
         ELSE IF status \notin validTransitions(orders[id].status)
           THEN Replied("update", 400)
         ELSE [inflight EXCEPT !["update"].pc = "read",
                               !["update"].snap = Some([id |-> id,
                                                        status |-> orders[id].status]),
                               !["update"].status = status]
  /\ UNCHANGED <<orders, payments, resp, mail, unknownColumn>>

(* An update that writes only while the row still has the status read. *)
UpdateWriteIfUnchanged ==
  /\ inflight["update"].pc = "read"
  /\ LET order == inflight["update"].snap[1] IN
     IF orders[order.id].status = order.status
     THEN /\ orders' = [orders EXCEPT ![order.id].status = inflight["update"].status]
          /\ inflight' = Replied("update", 200)
     ELSE /\ inflight' = Replied("update", 409)
          /\ UNCHANGED orders
  /\ UNCHANGED <<payments, resp, mail, unknownColumn>>

(* updateOrderStatus: order.update and the reply *)
UpdateWrite ==
  /\ inflight["update"].pc = "read"
  /\ orders' = [orders EXCEPT
                  ![inflight["update"].snap[1].id].status = inflight["update"].status]
  /\ inflight' = Replied("update", 200)
  /\ UNCHANGED <<payments, resp, mail, unknownColumn>>

(* verifyPayment: payment.findFirst and the gateway's verification *)
VerifyRead ==
  /\ inflight["verify"].pc = "idle"
  /\ \E transactionId \in PaymentIdInputs :
       inflight' =
         IF ~(/\ transactionId \in PaymentIds
              /\ payments[transactionId].userId = RaceUser("verify"))
           THEN Replied("verify", 404)
         ELSE IF payments[transactionId].paymentMethod \notin GatewayMethods
           THEN Replied("verify", 400)
         ELSE IF ~verifyWithGateway(payments[transactionId].paymentMethod,
                                    transactionId).success
           THEN Replied("verify", 200)
         ELSE [inflight EXCEPT
                 !["verify"].pc = "read",
                 !["verify"].pid = transactionId,
                 !["verify"].snap =
                    Some([id |-> payments[transactionId].orderId,
                          status |-> orders[payments[transactionId].orderId].status])]
  /\ UNCHANGED <<orders, payments, resp, mail, unknownColumn>>

(* verifyPayment: payment.update *)
VerifyWritePayment ==
  /\ inflight["verify"].pc = "read"
  /\ payments' = [payments EXCEPT ![inflight["verify"].pid].status = "COMPLETED",
                                  ![inflight["verify"].pid].paidAt = newDate]
  /\ inflight' = [inflight EXCEPT !["verify"].pc = "paid"]
  /\ UNCHANGED <<orders, resp, mail, unknownColumn>>

(* verifyPayment: order.update, the confirmation e-mail and the reply *)
VerifyWriteOrder ==
  /\ inflight["verify"].pc = "paid"
  /\ orders' = SettleOrder(inflight["verify"].snap[1].id)
  /\ \E outcome \in MailOutcomes :
       mail' = sendOrderConfirmation(RaceUser("verify"),
                                     inflight["verify"].snap[1].id, outcome)
  /\ inflight' = Replied("verify", 200)
  /\ UNCHANGED <<payments, resp, unknownColumn>>

InitializeReads == \E s \in InitializeSlots : InitializeRead(s)

InitializeCreatesRow == \E s \in InitializeSlots : InitializeCreate(s)

InitializeUpdates == \E s \in InitializeSlots : InitializeUpdate(s)

NextRace ==
  \/ RaceCreateOrder
  \/ InitializeReads
  \/ InitializeCreatesRow
  \/ InitializeUpdates
  \/ CancelRead
  \/ CancelWriteOrder
  \/ CancelRefund
  \/ UpdateRead
  \/ UpdateWrite
  \/ VerifyRead
  \/ VerifyWritePayment
  \/ VerifyWriteOrder

SpecRace == Init /\ [][NextRace]_vars

(* ------------------------------------------- a gateway that can decline  *)
(* verifyChapaPayment, verifyCbeBirrPayment and verifyStripePayment stand  *)
(* for calls to the gateways ("in real implementation, you would call      *)
(* ... API") and answer success: true as shipped.  The handler branches on *)
(* verificationResult.success; GatewayResults are the two answers it       *)
(* distinguishes.                                                          *)
GatewayResults == {[success |-> TRUE], [success |-> FALSE]}

VerifyPaymentGateway ==
  \E user \in Users, transactionId \in PaymentIdInputs,
     verificationResult \in GatewayResults :
    /\ verifyPaymentWith(user, transactionId,
                         [m \in GatewayMethods |-> verificationResult])
    /\ UNCHANGED <<unknownColumn, inflight>>

NextGateway ==
  \/ CreateOrder
  \/ UpdateOrderStatus
  \/ CancelOrder
  \/ InitializePayment
  \/ VerifyPaymentGateway
  \/ WebhookChapa
  \/ WebhookCbeBirr

SpecGateway == Init /\ [][NextGateway]_vars

(* ================================================================ claims *)
(* The transition table as the specification prints it. *)
TableEdges == {<<"PENDING", "CONFIRMED">>, <<"PENDING", "CANCELLED">>,
               <<"CONFIRMED", "PROCESSING">>, <<"CONFIRMED", "CANCELLED">>,
               <<"PROCESSING", "SHIPPED">>, <<"SHIPPED", "DELIVERED">>}

TerminalStatuses == {"DELIVERED", "CANCELLED", "REFUNDED"}

(* <<a, b>> \in TableReach: the table leads from a to b by one or more   *)
(* edges.                                                                  *)
TableReach ==
  TableEdges \cup
  {<<"PENDING", "PROCESSING">>, <<"PENDING", "SHIPPED">>, <<"PENDING", "DELIVERED">>,
   <<"CONFIRMED", "SHIPPED">>, <<"CONFIRMED", "DELIVERED">>,
   <<"PROCESSING", "DELIVERED">>}

(* The payments of an order that are PENDING or PROCESSING. *)
OpenPayments(orderId) ==
  {p \in PaymentIds : /\ payments[p].orderId = orderId
                      /\ payments[p].status \in {"PENDING", "PROCESSING"}}

(* C1: a status request by the order's seller for a pair (current, next)  *)
(* that is no edge of the table is rejected, and the order's status and    *)
(* tracking number are the same after it as before: no step that replies   *)
(* 200 or changes either of them is such a request.                        *)
C1_NonEdgeRejected ==
  [][resp'.route = "updateOrderStatus" =>
     \A id \in OrderIds :
       (/\ orders[id].sellerId = resp'.user
        /\ \/ resp'.code = 200
           \/ orders'[id].status # orders[id].status
           \/ orders'[id].trackingNumber # orders[id].trackingNumber)
       => \A r \in UpdateRequests :
            (/\ r.user = resp'.user
             /\ r.id = id
             /\ <<orders[id].status, r.status>> \notin TableEdges)
            => ~updateOrderStatus(r.user, r.id, r.status, r.trackingNumber)]_vars

(* The seller asked for a pair outside the table and got the 400 reply. *)
C1_Witness ==
  /\ resp.route = "updateOrderStatus"
  /\ resp.code = 400
  /\ resp.message = "Cannot change status"
  /\ \E id \in OrderIds : orders[id].sellerId = resp.user

(* C2: a status request by the order's seller for an edge of the table    *)
(* succeeds, and afterwards the persisted status is the requested one.     *)
C2_EdgeAccepted ==
  [][resp'.route = "updateOrderStatus" =>
     \A r \in UpdateRequests :
       (/\ resp'.user = r.user
        /\ r.id \in OrderIds
        /\ orders[r.id].sellerId = r.user
        /\ <<orders[r.id].status, r.status>> \in TableEdges
        /\ updateOrderStatus(r.user, r.id, r.status, r.trackingNumber))
       => /\ resp'.code = 200
          /\ orders'[r.id].status = r.status]_vars

(* C3: once an order is DELIVERED, CANCELLED or REFUNDED, no request       *)
(* changes its status.                                                     *)
C3_TerminalAbsorbing ==
  [][\A id \in OrderIds :
       orders[id].status \in TerminalStatuses
       => orders'[id].status = orders[id].status]_vars

(* C4: an order's status never moves back to an earlier status, one from   *)
(* which the table leads to its current status; in particular not from     *)
(* PROCESSING or SHIPPED to CONFIRMED or PENDING.                          *)
C4_NeverBack ==
  [][\A id \in OrderIds :
       <<orders'[id].status, orders[id].status>> \notin TableReach]_vars

(* C5: a cancel request by the buyer on an order that is PROCESSING,       *)
(* SHIPPED, DELIVERED, CANCELLED or REFUNDED is rejected, and the order    *)
(* and its payment rows are unchanged.                                     *)
C5_LateCancelRejected ==
  [][resp'.route = "cancelOrder" =>
     \A r \in CancelRequests :
       (/\ resp'.user = r.user
        /\ r.id \in OrderIds
        /\ orders[r.id].buyerId = r.user
        /\ orders[r.id].status \in
             {"PROCESSING", "SHIPPED", "DELIVERED", "CANCELLED", "REFUNDED"}
        /\ cancelOrder(r.user, r.id, r.reason))
       => /\ resp'.code # 200
          /\ orders'[r.id] = orders[r.id]
          /\ payments' = payments]_vars

(* The buyer's cancel request was refused on an order already in progress. *)
C5_Witness ==
  /\ resp.route = "cancelOrder"
  /\ resp.code = 400
  /\ \E id \in OrderIds :
       /\ orders[id].buyerId = resp.user
       /\ orders[id].status \in {"PROCESSING", "SHIPPED", "DELIVERED"}

(* C6: a cancel request by the buyer on a PENDING or CONFIRMED order whose *)
(* payment status is COMPLETED sets the order CANCELLED, marks the order's *)
(* payments REFUNDED with refund amount equal to the order's total, and    *)
(* reports that total as the refund amount.                                *)
C6_CancelRefunds ==
  [][resp'.route = "cancelOrder" =>
     \A r \in CancelRequests :
       (/\ resp'.user = r.user
        /\ r.id \in OrderIds
        /\ orders[r.id].buyerId = r.user
        /\ orders[r.id].status \in {"PENDING", "CONFIRMED"}
        /\ orders[r.id].paymentStatus = "COMPLETED"
        /\ cancelOrder(r.user, r.id, r.reason))
       => /\ resp'.code = 200
          /\ resp'.data.refundAmount = orders[r.id].total
          /\ orders'[r.id].status = "CANCELLED"
          /\ DOMAIN payments' = DOMAIN payments
          /\ \A p \in PaymentIds :
               payments[p].orderId = r.id
               => /\ payments'[p].status = "REFUNDED"
                  /\ payments'[p].refundAmount = Some(orders[r.id].total)]_vars

(* A paid order was cancelled: the reply carries the total as the refund   *)
(* and the order has a refunded payment.                                   *)
C6_Witness ==
  /\ resp.route = "cancelOrder"
  /\ resp.code = 200
  /\ \E id \in OrderIds :
       /\ resp.data.orderId = id
       /\ orders[id].status = "CANCELLED"
       /\ orders[id].paymentStatus = "COMPLETED"
       /\ resp.data.refundAmount = orders[id].total
       /\ \E p \in PaymentIds : /\ payments[p].orderId = id
                                /\ payments[p].status = "REFUNDED"

(* C7: a cancel request by the buyer on a PENDING or CONFIRMED order whose *)
(* payment status is not COMPLETED sets the order CANCELLED, reports a     *)
(* refund amount of 0 and leaves every payment row unchanged.              *)
C7_CancelUnpaid ==
  [][resp'.route = "cancelOrder" =>
     \A r \in CancelRequests :
       (/\ resp'.user = r.user
        /\ r.id \in OrderIds
        /\ orders[r.id].buyerId = r.user
        /\ orders[r.id].status \in {"PENDING", "CONFIRMED"}
        /\ orders[r.id].paymentStatus # "COMPLETED"
        /\ cancelOrder(r.user, r.id, r.reason))
       => /\ resp'.code = 200
          /\ resp'.data.refundAmount = 0
          /\ orders'[r.id].status = "CANCELLED"
          /\ payments' = payments]_vars

(* An unpaid order with a payment row was cancelled with a refund of 0. *)
C7_Witness ==
  /\ resp.route = "cancelOrder"
  /\ resp.code = 200
  /\ resp.data.refundAmount = 0
  /\ \E id \in OrderIds :
       /\ resp.data.orderId = id
       /\ orders[id].status = "CANCELLED"
       /\ orders[id].paymentStatus # "COMPLETED"
       /\ \E p \in PaymentIds : payments[p].orderId = id

(* C8: an initialize request for an order that has a payment in PENDING or *)
(* PROCESSING is rejected and the payment rows are the same afterwards.    *)
C8_InitializeConflict ==
  [][resp'.route = "initializePayment" =>
     \A r \in InitializeRequests :
       (/\ resp'.user = r.user
        /\ r.orderId \in OrderIds
        /\ OpenPayments(r.orderId) # {}
        /\ initializePayment(r.user, r.orderId, r.paymentMethod))
       => /\ resp'.code # 200
          /\ payments' = payments]_vars

(* The buyer's initialize request met a payment already in progress. *)
C8_Witness ==
  /\ resp.route = "initializePayment"
  /\ resp.code = 400
  /\ resp.message = "Payment already initialized for this order"
  /\ \E id \in OrderIds : orders[id].buyerId = resp.user /\ OpenPayments(id) # {}

(* C9: with requests handled one after the other, every order has at most  *)
(* one payment in PENDING or PROCESSING.                                    *)
C9_OneOpenPayment ==
  \A id \in OrderIds : Cardinality(OpenPayments(id)) <= 1

(* An order with two payment rows, the second one created by an initialize *)
(* request and still open.                                                 *)
C9_Witness ==
  \E id \in OrderIds :
    /\ Cardinality({p \in PaymentIds : payments[p].orderId = id}) >= 2
    /\ Cardinality(OpenPayments(id)) = 1

(* The payment is COMPLETED and paid, its order CONFIRMED and paid, after  *)
(* the step.                                                               *)
Settled(p) ==
  /\ payments'[p].status = "COMPLETED"
  /\ payments'[p].paidAt # None
  /\ orders'[payments[p].orderId].paymentStatus = "COMPLETED"
  /\ orders'[payments[p].orderId].status = "CONFIRMED"

(* C10: when verifyPayment reports SUCCESS, or a webhook carries status    *)
(* 'success' for a payment, that payment is COMPLETED with a paid          *)
(* timestamp, and its order is CONFIRMED with payment status COMPLETED.    *)
C10_SuccessSettles ==
  [][/\ resp'.route = "verifyPayment" =>
        \A p \in PaymentIds :
          (/\ resp'.code = 200
           /\ resp'.data.status = "SUCCESS"
           /\ ~Settled(p))
          => ~verifyPayment(resp'.user, p)
     /\ resp'.route \in {"webhookChapa", "webhookCbeBirr"} =>
        \A p \in PaymentIds, t \in PaymentIdInputs :
          (/\ payments[p].transactionId = Some(t)
           /\ ~Settled(p))
          => ~webhook(resp'.route, t, "success")]_vars

(* A verification reported SUCCESS for a payment of an order that was not  *)
(* paid before.                                                            *)
C10_Witness ==
  /\ resp.route = "verifyPayment"
  /\ resp.code = 200
  /\ resp.data.status = "SUCCESS"
  /\ payments[resp.data.transactionId].status = "COMPLETED"
  /\ orders[resp.data.orderId].status = "CONFIRMED"

(* The payment row and the status columns of its order are the same after  *)
(* the step as before, and the step attempts no confirmation e-mail.       *)
NoSecondSettlement(p) ==
  /\ payments'[p] = payments[p]
  /\ orders'[payments[p].orderId].status = orders[payments[p].orderId].status
  /\ orders'[payments[p].orderId].paymentStatus =
       orders[payments[p].orderId].paymentStatus
  /\ mail' = None

(* C11: settlement is idempotent: verifying a payment that is already      *)
(* COMPLETED, or a success webhook for it, leaves the payment and the      *)
(* order's status and payment status as they were, whatever the order's    *)
(* status is, and attempts no second order-confirmation e-mail.            *)
C11_SettlementIdempotent ==
  [][/\ resp'.route = "verifyPayment" =>
        \A p \in PaymentIds :
          (/\ payments[p].status = "COMPLETED"
           /\ payments[p].userId = resp'.user
           /\ verifyPayment(resp'.user, p))
          => NoSecondSettlement(p)
     /\ resp'.route \in {"webhookChapa", "webhookCbeBirr"} =>
        \A p \in PaymentIds, t \in PaymentIdInputs :
          (/\ payments[p].status = "COMPLETED"
           /\ payments[p].transactionId = Some(t)
           /\ webhook(resp'.route, t, "success"))
          => NoSecondSettlement(p)]_vars

(* The step marks the payment FAILED and leaves its order's status and     *)
(* payment status alone.                                                   *)
FailureRecorded(p) ==
  /\ payments'[p].status = "FAILED"
  /\ orders'[payments[p].orderId].status = orders[payments[p].orderId].status
  /\ orders'[payments[p].orderId].paymentStatus =
       orders[payments[p].orderId].paymentStatus

PaymentEdges == {<<"PENDING", "COMPLETED">>, <<"PENDING", "FAILED">>,
                 <<"COMPLETED", "REFUNDED">>}

(* C13: every change of a payment's status is PENDING -> COMPLETED,        *)
(* PENDING -> FAILED or COMPLETED -> REFUNDED.                             *)
C13_PaymentLifecycle ==
  [][\A p \in PaymentIds :
       \/ payments'[p].status = payments[p].status
       \/ <<payments[p].status, payments'[p].status>> \in PaymentEdges]_vars

(* C14: a status request from a user who is neither the order's seller nor *)
(* an admin is rejected for every requested status and the order is        *)
(* unchanged; the order's buyer is such a user.  No step that replies 200  *)
(* or changes the orders is such a request.                                *)
C14_OutsiderRejected ==
  [][(/\ resp'.route = "updateOrderStatus"
      /\ (resp'.code = 200 \/ orders' # orders)) =>
     \A r \in UpdateRequests :
       (/\ r.user = resp'.user
        /\ r.id \in OrderIds
        /\ orders[r.id].sellerId # r.user
        /\ UserRole(r.user) # "ADMIN")
       => ~updateOrderStatus(r.user, r.id, r.status, r.trackingNumber)]_vars

(* The buyer of an order asked for a status change of it and was refused. *)
C14_Witness ==
  /\ resp.route = "updateOrderStatus"
  /\ resp.code # 200
  /\ \E id \in OrderIds : /\ orders[id].buyerId = resp.user
                          /\ orders[id].sellerId # resp.user
  /\ UserRole(resp.user) # "ADMIN"

(* C15: a status request from an admin who is not the order's seller, for  *)
(* an edge of the table, is accepted and the persisted status becomes the  *)
(* requested one.                                                          *)
C15_AdminAccepted ==
  [][resp'.route = "updateOrderStatus" =>
     \A r \in UpdateRequests :
       (/\ r.user = resp'.user
        /\ r.id \in OrderIds
        /\ UserRole(r.user) = "ADMIN"
        /\ orders[r.id].sellerId # r.user
        /\ <<orders[r.id].status, r.status>> \in TableEdges
        /\ updateOrderStatus(r.user, r.id, r.status, r.trackingNumber))
       => /\ resp'.code = 200
          /\ orders'[r.id].status = r.status]_vars

(* The step replies with success or changes an order or payment row. *)
AcceptedOrChanged ==
  \/ resp'.code = 200
  \/ orders' # orders
  \/ payments' # payments

(* C16: cancelOrder, initializePayment and verifyPayment, called by a user *)
(* who is not the buyer of the referenced order or payment, are rejected   *)
(* and change no order row and no payment row: no step that replies 200 or *)
(* changes a row is such a call.                                           *)
C16_BuyerScoped ==
  [][/\ resp'.route = "cancelOrder" =>
        \A r \in CancelRequests :
          (/\ r.user = resp'.user
           /\ r.id \in OrderIds
           /\ orders[r.id].buyerId # r.user
           /\ AcceptedOrChanged)
          => ~cancelOrder(r.user, r.id, r.reason)
     /\ resp'.route = "initializePayment" =>
        \A r \in InitializeRequests :
          (/\ r.user = resp'.user
           /\ r.orderId \in OrderIds
           /\ orders[r.orderId].buyerId # r.user
           /\ AcceptedOrChanged)
          => ~initializePayment(r.user, r.orderId, r.paymentMethod)
     /\ resp'.route = "verifyPayment" =>
        \A p \in PaymentIds :
          (/\ orders[payments[p].orderId].buyerId # resp'.user
           /\ AcceptedOrChanged)
          => ~verifyPayment(resp'.user, p)]_vars

(* A user other than the buyer asked to cancel an order that its buyer     *)
(* could have cancelled, and was refused.                                  *)
C16_Witness ==
  /\ resp.route = "cancelOrder"
  /\ resp.code = 400
  /\ \E id \in OrderIds : /\ orders[id].buyerId # resp.user
                          /\ orders[id].status \in {"PENDING", "CONFIRMED"}

(* The reply of a verification that settled payment p. *)
SuccessResult(user, p) ==
  Reply("verifyPayment", user, 200, "",
        [transactionId |-> p, status |-> "SUCCESS",
         orderId |-> payments[p].orderId, amount |-> payments[p].amount])

(* C17: when the order-confirmation e-mail fails during verifyPayment, the *)
(* payment is COMPLETED, the order is CONFIRMED with payment status        *)
(* COMPLETED, and the caller gets the success result.                      *)
C17_MailFailureSwallowed ==
  [][resp'.route = "verifyPayment" =>
     \A p \in PaymentIds :
       (/\ mail' # None
        /\ mail'[1].outcome = "failed"
        /\ verifyPayment(resp'.user, p))
       => /\ Settled(p)
          /\ resp' = SuccessResult(resp'.user, p)]_vars

(* A verification whose confirmation e-mail failed has replied SUCCESS. *)
C17_Witness ==
  /\ resp.route = "verifyPayment"
  /\ resp.code = 200
  /\ resp.data.status = "SUCCESS"
  /\ mail # None
  /\ mail[1].outcome = "failed"
  /\ payments[resp.data.transactionId].status = "COMPLETED"

(* C18: in every reachable state the amount of every payment equals the    *)
(* total of its order, whether createOrder or initializePayment created    *)
(* the payment, and no step changes a payment's amount or an order's       *)
(* total.                                                                  *)
C18_AmountIsTotal ==
  /\ [](\A p \in PaymentIds : payments[p].amount = orders[payments[p].orderId].total)
  /\ [][/\ \A p \in PaymentIds : payments'[p].amount = payments[p].amount
        /\ \A o \in OrderIds : orders'[o].total = orders[o].total]_vars

(* An order has a payment made by createOrder and one made by              *)
(* initializePayment, and a later operation has settled the second.        *)
C18_Witness ==
  \E p, q \in PaymentIds :
    /\ payments[p].orderId = payments[q].orderId
    /\ payments[p].transactionId = None
    /\ payments[q].transactionId # None
    /\ payments[q].status = "COMPLETED"

(* The sum over the stored order lines of unit price times quantity. *)
RECURSIVE LineSum(_)
LineSum(lines) ==
  IF lines = <<>> THEN 0
  ELSE Head(lines).price * Head(lines).quantity + LineSum(Tail(lines))

(* C19: in every reachable state every persisted order satisfies           *)
(* total = subtotal + shipping + tax - discount, with subtotal the sum     *)
(* over the order's items of unit price times quantity.                    *)
C19_TotalEquation ==
  \A o \in OrderIds :
    /\ orders[o].total =
         orders[o].subtotal + orders[o].shipping + orders[o].tax - orders[o].discount
    /\ orders[o].subtotal = LineSum(orders[o].items)

(* An order of two lines with a shipping fee, after its cancellation. *)
C19_Witness ==
  \E o \in OrderIds :
    /\ Len(orders[o].items) = 2
    /\ orders[o].shipping > 0
    /\ orders[o].subtotal > 0
    /\ orders[o].status = "CANCELLED"

(* C20: every order persisted by createOrder has subtotal, shipping, tax,  *)
(* discount and total all at least 0, whatever integer quantity each item  *)
(* carries.                                                                *)
C20_NonNegativeMoney ==
  \A o \in OrderIds :
    /\ orders[o].subtotal >= 0
    /\ orders[o].shipping >= 0
    /\ orders[o].tax >= 0
    /\ orders[o].discount >= 0
    /\ orders[o].total >= 0

(* C21: an initializePayment request that ends in a rejection, for any     *)
(* reason, has no partial effect: it creates no payment row and changes no *)
(* existing row.                                                           *)
C21_RejectionHasNoEffect ==
  [][resp'.route = "initializePayment" =>
     \A r \in InitializeRequests :
       (/\ r.user = resp'.user
        /\ initializePayment(r.user, r.orderId, r.paymentMethod)
        /\ resp'.code # 200)
       => /\ payments' = payments
          /\ orders' = orders]_vars

(* C22: the check-then-create of initializePayment is not atomic: when two *)
(* initializations for the same order pass the pre-check before either     *)
(* inserts, both insert and both reply 200, leaving two PENDING payments   *)
(* for the order.  The second insert happens while the payment of the      *)
(* first is PENDING, and every insert is followed by the 200 reply.        *)
C22_InitializeRace ==
  [][\A s \in InitializeSlots, t \in InitializeSlots :
       /\ (/\ s # t
           /\ inflight[t].pid \in PaymentIds
           /\ payments[inflight[t].pid].status = "PENDING"
           /\ InitializeCreate(s))
          => /\ inflight'[s].pid \in DOMAIN payments'
             /\ inflight'[s].pid # inflight[t].pid
             /\ payments'[inflight'[s].pid].status = "PENDING"
             /\ payments'[inflight[t].pid].status = "PENDING"
             /\ payments'[inflight'[s].pid].orderId = payments[inflight[t].pid].orderId
       /\ InitializeUpdate(s) => inflight'[s].code = 200]_vars

(* Both initializations have replied 200 and their two payments of the     *)
(* same order are PENDING.                                                 *)
C22_Witness ==
  /\ \A s \in InitializeSlots : inflight[s].pc = "done" /\ inflight[s].code = 200
  /\ inflight["initA"].pid # inflight["initB"].pid
  /\ \A s \in InitializeSlots : payments[inflight[s].pid].status = "PENDING"
  /\ payments[inflight["initA"].pid].orderId = payments[inflight["initB"].pid].orderId

C24_IdentifierSettles ==
  [][/\ resp'.route = "verifyPayment" =>
        \A p \in PaymentIds :
          (/\ payments[p].paymentMethod \in GatewayMethods
           /\ payments[p].userId = resp'.user
           /\ verifyPayment(resp'.user, p))
          => Settled(p)
     /\ resp'.route \in {"webhookChapa", "webhookCbeBirr"} =>
        \A p \in PaymentIds :
          (/\ payments[p].paymentMethod \in GatewayMethods
           /\ webhook(resp'.route, p, "success"))
          => Settled(p)]_vars

C26_PaidOnce ==
  /\ [](\A o \in OrderIds :
          Cardinality({p \in PaymentsOf(o) : payments[p].status = "COMPLETED"}) <= 1)
  /\ [][resp'.route = "initializePayment" =>
        \A r \in InitializeRequests :
          (/\ r.user = resp'.user
           /\ r.orderId \in OrderIds
           /\ orders[r.orderId].paymentStatus = "COMPLETED"
           /\ initializePayment(r.user, r.orderId, r.paymentMethod))
          => payments' = payments]_vars

(* The sum of refundAmount over the first n payment rows that belong to    *)
(* order o (a row without a refund counts 0).                              *)
RECURSIVE RefundedUpTo(_, _)
RefundedUpTo(o, n) ==
  IF n = 0 THEN 0
  ELSE RefundedUpTo(o, n - 1)
       + (IF payments[n].orderId = o /\ payments[n].refundAmount # None
          THEN payments[n].refundAmount[1] ELSE 0)

(* C27: in every reachable state the sum of refundAmount over the payments *)
(* of an order is at most the order's total.                               *)
C27_RefundWithinTotal ==
  \A o \in OrderIds : RefundedUpTo(o, Len(payments)) <= orders[o].total

(* C28: in every reachable state an order whose payment status is         *)
(* COMPLETED has at least one payment that is COMPLETED or REFUNDED.       *)
C28_PaidOrderHasPayment ==
  \A o \in OrderIds :
    orders[o].paymentStatus = "COMPLETED"
    => \E p \in PaymentsOf(o) : payments[p].status \in {"COMPLETED", "REFUNDED"}

(* C29: in every reachable state no order has status REFUNDED and every    *)
(* order's payment status is PENDING or COMPLETED; a cancellation with     *)
(* refund leaves the order's payment status COMPLETED while its payments   *)
(* become REFUNDED.                                                        *)
C29_OrderColumnsRange ==
  /\ [](\A o \in OrderIds : /\ orders[o].status # "REFUNDED"
                            /\ orders[o].paymentStatus \in {"PENDING", "COMPLETED"})
  /\ [][resp'.route = "cancelOrder" =>
        \A r \in CancelRequests :
          (/\ r.user = resp'.user
           /\ r.id \in OrderIds
           /\ orders[r.id].paymentStatus = "COMPLETED"
           /\ cancelOrder(r.user, r.id, r.reason)
           /\ resp'.code = 200)
          => /\ orders'[r.id].paymentStatus = "COMPLETED"
             /\ \A p \in PaymentsOf(r.id) : payments'[p].status = "REFUNDED"]_vars

(* A paid order has been cancelled with a refund. *)
C29_Witness ==
  /\ resp.route = "cancelOrder"
  /\ resp.code = 200
  /\ resp.data.refundAmount > 0
  /\ orders[resp.data.orderId].status = "CANCELLED"
  /\ orders[resp.data.orderId].paymentStatus = "COMPLETED"
  /\ PaymentsOf(resp.data.orderId) # {}
  /\ \A p \in PaymentsOf(resp.data.orderId) : payments[p].status = "REFUNDED"

(* C30: when a settlement of the order's payment has run to its end after  *)
(* the buyer's cancelOrder read the order as unpaid and before cancelOrder *)
(* takes its last step, that last step does not leave the order CANCELLED  *)
(* with a COMPLETED payment, and does not leave it CONFIRMED.              *)
C30_CancelSettleRace ==
  [][(/\ inflight["cancel"].pc = "wrote"
      /\ inflight["cancel"].snap[1].paymentStatus # "COMPLETED"
      /\ inflight["verify"].pc = "done"
      /\ inflight["verify"].code = 200
      /\ inflight["verify"].pid \in PaymentIds
      /\ payments[inflight["verify"].pid].orderId = inflight["cancel"].snap[1].id
      /\ CancelRefund)
     => LET id == inflight["cancel"].snap[1].id IN
        /\ inflight'["cancel"].code = 200
        /\ ~(/\ orders'[id].status = "CANCELLED"
             /\ \E p \in PaymentsOf(id) : payments'[p].status = "COMPLETED")
        /\ orders'[id].status # "CONFIRMED"]_vars

====
